---- MODULE Spec2Model ----
(***************************************************************************)
(* datasette-showboat: the receive endpoint, the chunk table and the read  *)
(* endpoints of src/datasette_showboat/__init__.py as a state machine.     *)
(*                                                                         *)
(* Text that the handlers scan or concatenate (titles, markdown, code) is  *)
(* a tuple of one-character strings; identifiers that are only compared    *)
(* (document ids, command names, tokens) are strings.                      *)
(***************************************************************************)
EXTENDS Integers, Sequences, FiniteSets, TLC

\* ------------------------------------------------------------------ bounds

\* Receive requests answered with a 2xx status in one behaviour.
MaxAccepted == 2

\* ----------------------------------------------------------------- values

\* Python's None: a missing query parameter, a missing plugin setting, a NULL.
None == "None"

Get(f, k, d) == IF k \in DOMAIN f THEN f[k] ELSE d

Max(a, b) == IF a >= b THEN a ELSE b

\* The backtick character (written out: the lexer reads a backtick as markup).
BT == "BACKTICK"
NL == <<"\n">>

\* ------------------------------------------------------------ make_fence

RECURSIVE FenceScan(_, _, _, _)
\* The loop of make_fence from position i on: (current_run, max_run) updated
\* character by character; the value is the final max_run.
FenceScan(content, i, current_run, max_run) ==
    IF i > Len(content) THEN max_run
    ELSE IF content[i] = BT
         THEN FenceScan(content, i + 1, current_run + 1, Max(max_run, current_run + 1))
         ELSE FenceScan(content, i + 1, 0, max_run)

Backticks(n) == [i \in 1..n |-> BT]

\* Mutant of make_fence: the fence as long as the longest run, not one longer.
make_fence_AsLongAsRun(content) == Backticks(Max(3, FenceScan(content, 1, 0, 0)))

\* "`" * max(3, max_run + 1)
make_fence(content) == Backticks(Max(3, FenceScan(content, 1, 0, 0) + 1))

\* ------------------------------------------------------ stored markdown

\* f"# {title}"
InitMarkdown(fields) == <<"#", " ">> \o Get(fields, "title", <<"U", "n", "t", "i", "t", "l", "e", "d">>)

NoteMarkdown(fields) == Get(fields, "markdown", <<>>)

\* f"{code_fence}{language}\n{input_code}\n{code_fence}\n\n{output_fence}output\n{output_text}\n{output_fence}"
ExecMarkdown(fields) ==
    LET language == Get(fields, "language", <<>>)
        input_code == Get(fields, "input", <<>>)
        output_text == Get(fields, "output", <<>>)
        code_fence == make_fence(input_code)
        output_fence == make_fence(output_text)
    IN  code_fence \o language \o NL \o input_code \o NL \o code_fence \o NL \o NL
        \o output_fence \o <<"o", "u", "t", "p", "u", "t">> \o NL \o output_text \o NL
        \o output_fence

\* f"{fence}bash {{image}}\n{input_text}\n{fence}", then "\n\n![{alt_text}]()" when alt is given
ImageMarkdown(fields) ==
    LET input_text == Get(fields, "input", <<>>)
        alt_text == Get(fields, "alt", <<>>)
        fence == make_fence(input_text)
        markdown == fence \o <<"b", "a", "s", "h", " ", "{", "i", "m", "a", "g", "e", "}">>
                    \o NL \o input_text \o NL \o fence
    IN  IF alt_text # <<>>
        THEN markdown \o NL \o NL \o <<"!", "[">> \o alt_text \o <<"]", "(", ")">>
        ELSE markdown

\* ---------------------------------------------------------------- state

VARIABLES
    chunks,       \* the rows of table showboat_chunks
    seq,          \* sqlite_sequence: the largest id AUTOINCREMENT has handed out
    now,          \* the reading datetime.now() gives
    token,        \* plugin setting "token" (None when not configured)
    resp,         \* the response to the last request
    accepted,     \* the receive requests answered 2xx so far, oldest first
    queue,        \* the statements handed to the write thread and not yet run
    lastId,       \* the document page's cursor (let lastId)
    rendered,     \* the ids of the chunk divs in the page's #chunks, in page order
    fetches,      \* the page's polls that are waiting on their fetch
    content,      \* the text make_fence is called with
    fence         \* what the call returned

\* The state of the server, and of one open document page.
server == <<chunks, seq, now, token, resp, accepted>>
browser == <<lastId, rendered, fetches>>

vars == <<chunks, seq, now, token, resp, accepted, queue, lastId, rendered, fetches,
          content, fence>>

\* ------------------------------------------------------------- requests

Docs == {"doc-1", "doc-2"}
KnownCommands == {"init", "note", "exec", "image", "pop"}
Methods == {"POST", "GET"}
TokenSettings == {None, "secret123"}
\* The token query parameter: absent, wrong, right.
TokenArgs == {None, "wrong", "secret123"}
\* The uuid and command form fields: absent (None), blank, or a value.
UuidFields == {None, ""} \cup Docs
CommandFields == {None, ""} \cup KnownCommands \cup {"badcommand"}

NoFields == [k \in {} |-> <<>>]
Opt(k, v) == IF v = None THEN NoFields ELSE (k :> v)

\* Two request bodies besides uuid and command: a url-encoded form with no
\* further fields, and a multipart form with every field filled (the code and
\* its output hold backtick runs) and a file part named image.
PlainBody ==
    [content_type |-> "application/x-www-form-urlencoded", form |-> NoFields,
     upload |-> NoFields]
FullBody ==
    [content_type |-> "multipart/form-data; boundary=x",
     form |-> [title |-> <<"T">>, markdown |-> <<"m">>, language |-> <<"p", "y">>,
               input |-> <<"a", BT, BT, BT>>, output |-> <<BT>>, alt |-> <<"x">>],
     upload |-> [image |-> "PNGDATA"]]
Bodies == {PlainBody, FullBody}

ReceiveRequest(m, t, u, c, b) ==
    [method |-> m, token |-> t, content_type |-> b.content_type,
     form |-> Opt("uuid", u) @@ Opt("command", c) @@ b.form, upload |-> b.upload]

\* Every request the claims speak of.
ReceiveRequests ==
    {ReceiveRequest(m, t, u, c, b) :
        m \in Methods, t \in TokenArgs, u \in UuidFields, c \in CommandFields, b \in Bodies}

\* The requests the clients of the model send: every method, token, uuid and
\* command, with the multipart body.
SentRequests ==
    {ReceiveRequest(m, t, u, c, FullBody) :
        m \in Methods, t \in TokenArgs, u \in UuidFields, c \in CommandFields}

\* ---------------------------------------------------------- body parsing

IsMultipart(content_type) ==
    content_type = "multipart/form-data; boundary=x"

\* uuid and command are strings, every other field is text.
Blank(k, v) == IF k \in {"uuid", "command"} THEN v = "" ELSE v = <<>>

\* parse_multipart_body: a part with a filename goes to files, any other part
\* to fields (an empty payload as the empty string).
parse_multipart_body(request) == [fields |-> request.form, files |-> request.upload]

\* urllib.parse.parse_qs drops blank values; a url-encoded body holds no files.
parse_qs_body(request) ==
    [fields |-> [k \in {j \in DOMAIN request.form : ~Blank(j, request.form[j])} |-> request.form[k]],
     files |-> NoFields]

ParseBody(request) ==
    IF IsMultipart(request.content_type)
    THEN parse_multipart_body(request)
    ELSE parse_qs_body(request)

\* ---------------------------------------------------------- chunk table

Chunk(id, showboat_id, created_at, markdown, image) ==
    [id |-> id, showboat_id |-> showboat_id, created_at |-> created_at,
     markdown |-> markdown, image |-> image]

ChunksOf(rows, uuid) == {c \in rows : c.showboat_id = uuid}

MaxId(rows) == CHOOSE i \in {c.id : c \in rows} : \A c \in rows : c.id <= i

\* Mutant of InsertChunk: INTEGER PRIMARY KEY without AUTOINCREMENT, the id
\* after the largest one in the table.
InsertChunk_RowidAfterMax(db, uuid, created_at, markdown, image) ==
    LET id == IF db.chunks = {} THEN 1 ELSE MaxId(db.chunks) + 1
    IN  [chunks |-> db.chunks \cup {Chunk(id, uuid, created_at, markdown, image)},
         seq |-> Max(db.seq, id)]

\* INSERT INTO showboat_chunks (showboat_id, created_at, markdown, image):
\* AUTOINCREMENT gives the row the id after the largest ever handed out.
InsertChunk(db, uuid, created_at, markdown, image) ==
    [chunks |-> db.chunks \cup {Chunk(db.seq + 1, uuid, created_at, markdown, image)},
     seq |-> db.seq + 1]

\* Mutant of DeleteLastChunk: the subquery without WHERE showboat_id = ?, the
\* newest row of the table goes.
DeleteLastChunk_AnyDocument(db, uuid) ==
    IF db.chunks = {}
    THEN db
    ELSE [chunks |-> {c \in db.chunks : c.id # MaxId(db.chunks)}, seq |-> db.seq]

\* DELETE FROM showboat_chunks WHERE id = (SELECT id ... WHERE showboat_id = ?
\* ORDER BY id DESC LIMIT 1): the document's newest row goes, if it has one.
DeleteLastChunk(db, uuid) ==
    IF ChunksOf(db.chunks, uuid) = {}
    THEN db
    ELSE [chunks |-> {c \in db.chunks : c.id # MaxId(ChunksOf(db.chunks, uuid))},
          seq |-> db.seq]

\* ------------------------------------------------------ showboat_receive

Response(status, body) == [status |-> status, body |-> body]

Outcome(response, db) == [response |-> response, chunks |-> db.chunks, seq |-> db.seq]

get_token == token

\* Mutant of MethodRejected: GET is let through as well.
MethodRejected_GetAllowed(request) == request.method \notin {"POST", "GET"}

\* if request.method != "POST"
MethodRejected(request) == request.method # "POST"

\* if expected_token: ... if provided_token != expected_token
TokenRejected(request) ==
    get_token # None /\ get_token # "" /\ request.token # get_token

\* Mutant of RequiredMissing: "and" where the handler has "or".
RequiredMissing_BothOnly(uuid, command) == uuid = "" /\ command = ""

\* if not uuid or not command
RequiredMissing(uuid, command) == uuid = "" \/ command = ""

\* Mutant of UnknownCommand: the message leaves the command out.
UnknownCommand_Unnamed(command) == Response(400, [error |-> "Unknown command"])

\* f"Unknown command: {command}"
UnknownCommand(command) == Response(400, [error |-> "Unknown command: " \o command])

\* The branch of the if/elif chain for a command, applied to the table.
Dispatch(db, uuid, command, fields, files, created_at) ==
    CASE command = "init" ->
            Outcome(Response(201, [ok |-> TRUE]),
                    InsertChunk(db, uuid, created_at, InitMarkdown(fields), None))
      [] command = "note" ->
            Outcome(Response(201, [ok |-> TRUE]),
                    InsertChunk(db, uuid, created_at, NoteMarkdown(fields), None))
      [] command = "exec" ->
            Outcome(Response(201, [ok |-> TRUE]),
                    InsertChunk(db, uuid, created_at, ExecMarkdown(fields), None))
      [] command = "image" ->
            Outcome(Response(201, [ok |-> TRUE]),
                    InsertChunk(db, uuid, created_at, ImageMarkdown(fields),
                                Get(files, "image", None)))
      [] command = "pop" ->
            Outcome(Response(200, [ok |-> TRUE]), DeleteLastChunk(db, uuid))
      [] OTHER ->
            Outcome(UnknownCommand(command), db)

\* Mutant of showboat_receive: the body is parsed and the required fields are
\* tested before the token.
showboat_receive_FieldsFirst(request, db, created_at) ==
    IF MethodRejected(request)
    THEN Outcome(Response(405, [error |-> "Method not allowed"]), db)
    ELSE LET parsed == ParseBody(request)
             uuid == Get(parsed.fields, "uuid", "")
             command == Get(parsed.fields, "command", "")
         IN  IF RequiredMissing(uuid, command)
             THEN Outcome(Response(400, [error |-> "uuid and command are required"]), db)
             ELSE IF TokenRejected(request)
             THEN Outcome(Response(403, [error |-> "Invalid token"]), db)
             ELSE Dispatch(db, uuid, command, parsed.fields, parsed.files, created_at)

\* The handler on a table db at clock reading created_at: its response and the
\* table it leaves.
showboat_receive(request, db, created_at) ==
    IF MethodRejected(request)
    THEN Outcome(Response(405, [error |-> "Method not allowed"]), db)
    ELSE IF TokenRejected(request)
    THEN Outcome(Response(403, [error |-> "Invalid token"]), db)
    ELSE LET parsed == ParseBody(request)
             uuid == Get(parsed.fields, "uuid", "")
             command == Get(parsed.fields, "command", "")
         IN  IF RequiredMissing(uuid, command)
             THEN Outcome(Response(400, [error |-> "uuid and command are required"]), db)
             ELSE Dispatch(db, uuid, command, parsed.fields, parsed.files, created_at)

Db == [chunks |-> chunks, seq |-> seq]

Success(response) == response.status \in {200, 201}

\* What the log of accepted requests keeps of one: its document, its command,
\* the clock reading it was given and the id of the row it wrote (0: none).
Entry(request, created_at, id) ==
    LET fields == ParseBody(request).fields
    IN  [showboat_id |-> Get(fields, "uuid", ""), command |-> Get(fields, "command", ""),
         created_at |-> created_at, id |-> id]

\* ------------------------------------------------ showboat_document_json

DigitChars == <<"0", "1", "2", "3", "4", "5", "6", "7", "8", "9">>

DigitValue(ch) == CHOOSE d \in 0..9 : DigitChars[d + 1] = ch

IsNumeral(s) == s # <<>> /\ \A i \in 1..Len(s) : \E d \in 0..9 : DigitChars[d + 1] = s[i]

RECURSIVE ParseInt(_)
\* int(after) on a string of decimal digits.
ParseInt(s) ==
    IF s = <<>> THEN 0
    ELSE 10 * ParseInt(SubSeq(s, 1, Len(s) - 1)) + DigitValue(s[Len(s)])

RECURSIVE IntToStr(_)
\* "?after=" + lastId: the decimal digits of a number.
IntToStr(n) ==
    IF n < 10 THEN <<DigitChars[n + 1]>>
    ELSE IntToStr(n \div 10) \o <<DigitChars[(n % 10) + 1]>>

RECURSIVE OrderById(_)
\* ORDER BY id
OrderById(rows) ==
    IF rows = {} THEN <<>>
    ELSE LET first == CHOOSE c \in rows : \A d \in rows : c.id <= d.id
         IN  <<first>> \o OrderById(rows \ {first})

\* base64.b64encode(...).decode("ascii"), kept symbolic.
B64(bytes) == <<"base64", bytes>>

\* One row as the JSON object of the listing; image only when the blob is non-empty.
ChunkJson(row) ==
    LET chunk == [id |-> row.id, showboat_id |-> row.showboat_id,
                  created_at |-> row.created_at, markdown |-> row.markdown]
    IN  IF row.image # None /\ row.image # ""
        THEN ("image" :> B64(row.image)) @@ chunk
        ELSE chunk

\* if after: (the parameter is given and not blank)
HasAfter(args) == "after" \in DOMAIN args /\ args["after"] # <<>>

\* The rows the query selects.
SelectChunks(rows, uuid, args) ==
    IF HasAfter(args)
    THEN {c \in ChunksOf(rows, uuid) : c.id > ParseInt(args["after"])}
    ELSE ChunksOf(rows, uuid)

\* The handler: 200 with the selected rows in id order; int(after) raises on a
\* non-number, which the framework answers with 500.
showboat_document_json(request, rows) ==
    IF HasAfter(request.args) /\ ~IsNumeral(request.args["after"])
    THEN Response(500, [error |-> "ValueError"])
    ELSE LET result == OrderById(SelectChunks(rows, request.uuid, request.args))
         IN  Response(200, [chunks |-> [i \in 1..Len(result) |-> ChunkJson(result[i])]])

\* The after parameter of a listing request: absent, blank, a number, not a number.
AfterArgs ==
    {NoFields, "after" :> <<>>, "after" :> <<"x">>}
    \cup {"after" :> IntToStr(n) : n \in 0..MaxAccepted}

\* ------------------------------------------------------ showboat_document

\* DOCUMENT_VIEWER_HTML.replace("__UUID__", uuid)
showboat_document(request) ==
    Response(200, [html |-> "DOCUMENT_VIEWER_HTML", uuid |-> request.uuid])

\* --------------------------------------------------------- showboat_index

MinOf(S) == CHOOSE x \in S : \A y \in S : x <= y
MaxOf(S) == CHOOSE x \in S : \A y \in S : y <= x

\* One row of SELECT showboat_id, COUNT(*), MIN(created_at), MAX(created_at)
\* ... GROUP BY showboat_id.
IndexRow(rows, uuid) ==
    [showboat_id |-> uuid,
     chunk_count |-> Cardinality(ChunksOf(rows, uuid)),
     first_chunk |-> MinOf({c.created_at : c \in ChunksOf(rows, uuid)}),
     last_chunk |-> MaxOf({c.created_at : c \in ChunksOf(rows, uuid)})]

IndexGroups(rows) == {IndexRow(rows, uuid) : uuid \in {c.showboat_id : c \in rows}}

\* Mutant of IndexResults: ORDER BY MAX(created_at) without DESC.
IndexResults_Ascending(rows) ==
    LET groups == IndexGroups(rows)
        n == Cardinality(groups)
    IN  {r \in [1..n -> groups] :
            /\ \A i, j \in 1..n : i # j => r[i] # r[j]
            /\ \A i, j \in 1..n : i < j => r[i].last_chunk <= r[j].last_chunk}

\* ORDER BY MAX(created_at) DESC: every order of the groups that is descending
\* in last_chunk (SQL leaves the order of ties open).
IndexResults(rows) ==
    LET groups == IndexGroups(rows)
        n == Cardinality(groups)
    IN  {r \in [1..n -> groups] :
            /\ \A i, j \in 1..n : i # j => r[i] # r[j]
            /\ \A i, j \in 1..n : i < j => r[i].last_chunk >= r[j].last_chunk}

\* The page for one result of the query.
showboat_index(request, result) ==
    Response(200, [html |-> "INDEX_HTML",
                   documents |-> IF result = <<>> THEN <<"No documents yet.">> ELSE result])

\* ---------------------------------------------------------- read requests

\* A GET of a read endpoint: the document of the URL, the query string, and
\* whether Datasette allows the request's actor the "showboat" permission
\* (src/tests/test_showboat.py configures it for one user, leaving the
\* anonymous actor without).
ReadRequest(uuid, args, permitted) == [uuid |-> uuid, args |-> args, permitted |-> permitted]

ListingRequests ==
    {ReadRequest(uuid, args, p) : uuid \in Docs, args \in AfterArgs, p \in BOOLEAN}

PageRequests == {ReadRequest(uuid, NoFields, p) : uuid \in Docs, p \in BOOLEAN}

IndexRequests == {ReadRequest(None, NoFields, p) : p \in BOOLEAN}

\* -------------------------------------------------------- state machine

\* make_fence has not returned yet.
NoFence == <<"None">>

\* No request has been answered yet.
NoResponse == [status |-> 0, body |-> NoFields]

Init ==
    /\ chunks = {}
    /\ seq = 0
    /\ now = 0
    /\ token \in TokenSettings
    /\ resp = NoResponse
    /\ accepted = <<>>
    /\ queue = <<>>
    /\ lastId = 0
    /\ rendered = <<>>
    /\ fetches = <<>>
    /\ content = <<>>
    /\ fence = NoFence

\* The id of the row an outcome added to the table (0: it added none).
WrittenId(o) ==
    IF o.chunks \subseteq chunks THEN 0
    ELSE (CHOOSE c \in o.chunks \ chunks : TRUE).id

\* What one request does to the table, with the entry it would leave in the log.
ReceiveOutcome(request) ==
    LET o == showboat_receive(request, Db, now)
    IN  [o |-> o, entry |-> Entry(request, now, WrittenId(o))]

\* One of the given requests arrives at /-/showboat/receive and is handled to
\* its response before anything else happens.
ReceiveOf(requests) ==
    \E x \in {ReceiveOutcome(request) : request \in requests} :
        /\ Success(x.o.response) => Len(accepted) < MaxAccepted
        /\ chunks' = x.o.chunks
        /\ seq' = x.o.seq
        /\ resp' = x.o.response
        /\ accepted' = IF Success(x.o.response) THEN Append(accepted, x.entry) ELSE accepted
        /\ UNCHANGED <<now, token, content, fence>>

\* A request to /-/showboat/receive.
Receive == ReceiveOf(SentRequests) /\ UNCHANGED <<queue, browser>>

\* GET /-/showboat/<uuid>.json
DocumentJson ==
    \E request \in ListingRequests :
        /\ resp' = showboat_document_json(request, chunks)
        /\ UNCHANGED <<chunks, seq, now, token, accepted, queue, content, fence, browser>>

\* GET /-/showboat/<uuid>
Document ==
    \E request \in PageRequests :
        /\ resp' = showboat_document(request)
        /\ UNCHANGED <<chunks, seq, now, token, accepted, queue, content, fence, browser>>

\* GET /-/showboat
Index ==
    \E request \in IndexRequests, result \in IndexResults(chunks) :
        /\ resp' = showboat_index(request, result)
        /\ UNCHANGED <<chunks, seq, now, token, accepted, queue, content, fence, browser>>

\* The four routes. Spec holds the clock still: all its requests arrive within
\* one reading of the clock.
Next == Receive \/ DocumentJson \/ Document \/ Index

Spec == Init /\ [][Next]_vars

\* ------------------------------------------------- the document page's poll

\* Polls of one page that may wait on their fetch at the same time.
MaxInFlight == 2

\* const uuid = "__UUID__": the document the open page shows.
ViewDoc == "doc-1"

\* The query string of the poll's url: lastId ? "?after=" + lastId : ""
PollArgs(cursor) == IF cursor # 0 THEN "after" :> IntToStr(cursor) ELSE NoFields

\* A poll that has called fetch(url) and waits; ok and chunks are of the
\* response once the server has sent it. issued is the number of requests the
\* server had accepted when the poll was called.
Fetch(args) ==
    [args |-> args, stage |-> "sent", ok |-> FALSE, chunks |-> <<>>,
     issued |-> Len(accepted)]

Without(s, i) == SubSeq(s, 1, i - 1) \o SubSeq(s, i + 1, Len(s))

RECURSIVE Cursor_LastChunk(_, _, _)
\* Mutant of Cursor: lastId = chunk.id, without the comparison.
Cursor_LastChunk(data, i, cursor) ==
    IF i > Len(data) THEN cursor
    ELSE Cursor_LastChunk(data, i + 1, data[i].id)

RECURSIVE Cursor(_, _, _)
\* if (chunk.id > lastId) lastId = chunk.id, over data.chunks from position i on
Cursor(data, i, cursor) ==
    IF i > Len(data) THEN cursor
    ELSE Cursor(data, i + 1, IF data[i].id > cursor THEN data[i].id ELSE cursor)

\* renderChunk over data.chunks: one div per chunk, appended to #chunks.
Rendered(data) == [i \in 1..Len(data) |-> data[i].id]

\* The requests the tools that write the documents send while the page is
\* open: well-formed, with the token, adding a note or popping.
ViewRequests ==
    {ReceiveRequest("POST", "secret123", u, c, FullBody) : u \in Docs, c \in {"note", "pop"}}

\* A chunk arrives at the server.
Post == ReceiveOf(ViewRequests) /\ UNCHANGED <<queue, browser>>

\* poll() is called, on page load or by setInterval: it builds the url from
\* the cursor as it is now and waits on fetch. Nothing holds a poll back while
\* an earlier one is waiting.
Poll ==
    /\ Len(fetches) < MaxInFlight
    /\ fetches' = Append(fetches, Fetch(PollArgs(lastId)))
    /\ UNCHANGED <<chunks, seq, now, token, resp, accepted, queue, content, fence,
                   lastId, rendered>>

\* The server handles the GET of a waiting poll and its response travels back.
FetchAnswer ==
    \E i \in 1..Len(fetches) :
        /\ fetches[i].stage = "sent"
        /\ LET response == showboat_document_json(
                                ReadRequest(ViewDoc, fetches[i].args, TRUE), chunks)
           IN  /\ resp' = response
               /\ fetches' = [fetches EXCEPT ![i] =
                      [args |-> @.args, stage |-> "answered",
                       ok |-> response.status = 200,
                       chunks |-> IF response.status = 200 THEN response.body.chunks
                                  ELSE <<>>,
                       issued |-> @.issued]]
        /\ UNCHANGED <<chunks, seq, now, token, accepted, queue, content, fence, lastId, rendered>>

\* The fetch of a waiting poll fails: the network drops it (fetch rejects and
\* the catch logs it) or the response is not ok (return). The poll ends.
FetchFail ==
    \E i \in 1..Len(fetches) :
        /\ fetches[i].stage = "sent" \/ ~fetches[i].ok
        /\ fetches' = Without(fetches, i)
        /\ UNCHANGED <<chunks, seq, now, token, resp, accepted, queue, content, fence,
                       lastId, rendered>>

\* The response of a waiting poll is there and ok: the poll renders every chunk
\* of it and moves the cursor, then ends.
FetchDone ==
    \E i \in 1..Len(fetches) :
        /\ fetches[i].stage = "answered" /\ fetches[i].ok
        /\ rendered' = rendered \o Rendered(fetches[i].chunks)
        /\ lastId' = Cursor(fetches[i].chunks, 1, lastId)
        /\ fetches' = Without(fetches, i)
        /\ UNCHANGED <<chunks, seq, now, token, resp, accepted, queue, content, fence>>

NextView == Post \/ Poll \/ FetchAnswer \/ FetchFail \/ FetchDone

\* One open page of document ViewDoc, and the tools writing to the server.
SpecView == Init /\ [][NextView]_vars

\* setInterval keeps calling poll, the server answers the polls it is sent, and
\* fetches succeed infinitely often.
SpecViewLive ==
    /\ SpecView
    /\ WF_vars(Poll)
    /\ SF_vars(FetchAnswer)
    /\ SF_vars(FetchDone)

\* ------------------------------------ concurrent handlers and the clock

\* Requests that get as far as the write in one behaviour.
MaxRequests == 3

\* Readings of the clock after the first.
MaxClock == 2

\* The requests of the tools that write at the same time: well-formed, with the
\* token, adding a note or popping.
ConcurrentRequests == ViewRequests

\* A statement handed to db.execute_write with the parameters the handler bound:
\* the request's fields and the created_at it read before.
WriteTask(request, created_at) == [request |-> request, created_at |-> created_at]

\* Mutant of WriteOrder: the newest statement runs first.
WriteOrder_NewestFirst(q) == Len(q)

\* The statement the write thread runs next: execute_write hands statements to
\* the database's one write connection, which runs them in the order handed.
WriteOrder(q) == 1

\* datetime.datetime.now(datetime.timezone.utc) moves on.
Tick ==
    /\ now < MaxClock
    /\ now' = now + 1
    /\ UNCHANGED <<chunks, seq, token, resp, accepted, queue, content, fence, browser>>

\* A handler runs from its first line to its await db.execute_write(...): a
\* request it turns down is answered at once; otherwise it reads the clock and
\* hands its statement over, and other handlers run while it waits.
Begin ==
    \E request \in ConcurrentRequests :
        /\ Len(accepted) + Len(queue) < MaxRequests
        /\ LET o == showboat_receive(request, Db, now)
           IN  IF Success(o.response)
               THEN /\ queue' = Append(queue, WriteTask(request, now))
                    /\ UNCHANGED resp
               ELSE /\ resp' = o.response
                    /\ UNCHANGED queue
        /\ UNCHANGED <<chunks, seq, now, token, accepted, browser, content, fence>>

\* The write thread runs a statement; the handler that waited on it answers.
Write ==
    /\ queue # <<>>
    /\ LET i == WriteOrder(queue)
           task == queue[i]
           o == showboat_receive(task.request, Db, task.created_at)
       IN  /\ chunks' = o.chunks
           /\ seq' = o.seq
           /\ resp' = o.response
           /\ accepted' = Append(accepted, Entry(task.request, task.created_at, WrittenId(o)))
           /\ queue' = Without(queue, i)
    /\ UNCHANGED <<now, token, browser, content, fence>>

NextConcurrent == Tick \/ Begin \/ Write \/ Index

\* Handlers that overlap, under a clock that moves.
SpecConcurrent == Init /\ [][NextConcurrent]_vars

\* ------------------------------------------------- make_fence on its own

\* Characters of the text make_fence is called with.
MaxLen == 4

\* The characters of the texts: the backtick, a letter, a line break.
Chars == {BT, "a", "\n"}

Contents == UNION {[1..n -> Chars] : n \in 0..MaxLen}

\* A client sends a text that a handler will fence.
Submit ==
    /\ fence = NoFence /\ content = <<>>
    /\ content' \in Contents \ {<<>>}
    /\ UNCHANGED <<chunks, seq, now, token, resp, accepted, queue, browser, fence>>

\* make_fence(content) returns.
Fence ==
    /\ fence = NoFence
    /\ fence' = make_fence(content)
    /\ UNCHANGED <<chunks, seq, now, token, resp, accepted, queue, browser, content>>

NextFence == Submit \/ Fence

\* make_fence called once, with any text of Contents.
SpecFence == Init /\ [][NextFence]_vars

\* ================================================================ claims
\* A claim about what the receive handler does with a request is stated for
\* every request of ReceiveRequests against the table of every reachable state.

\* The request as the client wrote it.
UuidGiven(request) == "uuid" \in DOMAIN request.form /\ request.form["uuid"] # ""
CommandGiven(request) == "command" \in DOMAIN request.form /\ request.form["command"] # ""
CommandOf(request) == Get(request.form, "command", "")
UuidOf(request) == Get(request.form, "uuid", "")

\* The request passes the shared-token gate of the deployment.
PassesToken(request) == token = None \/ request.token = token

\* A POST that is past every check: token, both required fields, a known command.
ValidRequest(request) ==
    /\ request.method = "POST"
    /\ PassesToken(request)
    /\ UuidGiven(request)
    /\ CommandOf(request) \in KnownCommands

Handled(request) == showboat_receive(request, Db, now)

\* The step accepts a request: the log grows by its entry.
Accepts == Len(accepted') = Len(accepted) + 1

\* The entry of the request the step accepts.
JustAccepted == accepted'[Len(accepted')]

\* The step keeps every row and adds exactly one, of the accepted request's document.
AppendsOne ==
    /\ chunks \subseteq chunks'
    /\ Cardinality(chunks') = Cardinality(chunks) + 1
    /\ \A c \in chunks' \ chunks : c.showboat_id = JustAccepted.showboat_id

\* The accepted requests of one document, oldest first.
AcceptedFor(uuid) == SelectSeq(accepted, LAMBDA e : e.showboat_id = uuid)

\* The chunks a permitted client is sent for a document and a query string.
Listing(uuid, args) == showboat_document_json(ReadRequest(uuid, args, TRUE), chunks).body.chunks

\* C1: a successful pop removes and modifies no existing chunk and appends
\* exactly one new chunk, so the document's chunk count grows by one, whatever
\* the document holds (also nothing).
C1_PopAppendsOneChunk ==
    [][(Accepts /\ JustAccepted.command = "pop") => AppendsOne]_vars

\* C2: the store is append-only: no step of any behaviour removes or changes
\* a chunk that was written; the set of stored chunks only grows.
C2_AppendOnly == [][chunks \subseteq chunks']_vars

\* C3: listing a document without a cursor returns exactly the chunks of the
\* requests accepted for it, in the order they were accepted, with strictly
\* increasing ids.
C3_AppendThenList ==
    \A uuid \in Docs :
        LET listing == Listing(uuid, NoFields)
            log == AcceptedFor(uuid)
        IN  /\ Len(listing) = Len(log)
            /\ \A i \in 1..Len(listing) :
                  /\ listing[i].showboat_id = uuid
                  /\ listing[i].created_at = log[i].created_at
            /\ \A i, j \in 1..Len(listing) : i < j => listing[i].id < listing[j].id

\* C4: listing a document with after = id(C_k) returns exactly the chunks
\* accepted for it after C_k, ascending in id, all with ids above id(C_k) and
\* none of another document; after the highest id the listing is empty.
C4_IncrementalListing ==
    \A uuid \in Docs :
        LET log == AcceptedFor(uuid)
        IN  \A k \in 1..Len(log) :
                log[k].id # 0 =>
                    LET listing == Listing(uuid, "after" :> IntToStr(log[k].id))
                    IN  /\ Len(listing) = Len(log) - k
                        /\ \A i \in 1..Len(listing) :
                              /\ listing[i].id > log[k].id
                              /\ listing[i].showboat_id = uuid
                        /\ \A i, j \in 1..Len(listing) :
                              i < j => listing[i].id < listing[j].id

\* C5: every successful receive call, for each of the five commands, appends
\* exactly one chunk, carrying the request's document id.
C5_OneChunkPerSuccess == [][Accepts => AppendsOne]_vars

\* C6: every accepted request with a known command, pop included, is answered
\* 201 with {"ok": true}.
C6_Accepted201 ==
    [][(Accepts /\ JustAccepted.command \in KnownCommands)
          => resp' = Response(201, [ok |-> TRUE])]_vars

\* C7 as stated: a POST whose uuid or command is missing or empty is answered
\* 400 and leaves the store unchanged.
C7_MissingFields400 ==
    \A request \in ReceiveRequests :
        (request.method = "POST" /\ (~UuidGiven(request) \/ ~CommandGiven(request)))
            => /\ Handled(request).response.status = 400
               /\ Handled(request).chunks = chunks

\* C7 amended: a POST that passes the token gate and whose uuid or command is
\* missing or empty is answered 400 and leaves the store unchanged.
C7_MissingFields400PastToken ==
    \A request \in ReceiveRequests :
        (/\ request.method = "POST"
         /\ PassesToken(request)
         /\ (~UuidGiven(request) \/ ~CommandGiven(request)))
            => /\ Handled(request).response.status = 400
               /\ Handled(request).chunks = chunks
               /\ Handled(request).seq = seq

\* C7 witness: with a token configured and chunks stored, a request was just
\* turned down for its missing fields.
C7_Witness ==
    /\ resp = Response(400, [error |-> "uuid and command are required"])
    /\ token # None
    /\ chunks # {}

\* The answer names the command: "Unknown command" and the offending name.
NamesUnknown(response, command) ==
    /\ response.status = 400
    /\ response.body = [error |-> "Unknown command: " \o command]

\* C8 as stated: a POST with a command name outside the five known ones is
\* answered 400 naming the command, and leaves the store unchanged.
C8_UnknownCommand400 ==
    \A request \in ReceiveRequests :
        (/\ request.method = "POST"
         /\ CommandGiven(request)
         /\ CommandOf(request) \notin KnownCommands)
            => /\ NamesUnknown(Handled(request).response, CommandOf(request))
               /\ Handled(request).chunks = chunks

\* C8 amended: a POST that passes the token gate, carries a uuid and names a
\* command outside the five known ones is answered 400 naming the command,
\* and leaves the store unchanged.
C8_UnknownCommand400PastChecks ==
    \A request \in ReceiveRequests :
        (/\ request.method = "POST"
         /\ PassesToken(request)
         /\ UuidGiven(request)
         /\ CommandGiven(request)
         /\ CommandOf(request) \notin KnownCommands)
            => /\ NamesUnknown(Handled(request).response, CommandOf(request))
               /\ Handled(request).chunks = chunks
               /\ Handled(request).seq = seq

\* C8 witness: with chunks stored, a request was just turned down for its
\* command name.
C8_Witness ==
    /\ resp = Response(400, [error |-> "Unknown command: badcommand"])
    /\ chunks # {}

\* C9: with a token configured, a POST whose token is absent or differs is
\* answered 403 and writes nothing, whatever its body, and one with the
\* matching token is processed normally: 201 for a valid command. With no
\* token configured the token supplied makes no difference.
C9_TokenGate ==
    \A request \in ReceiveRequests :
        request.method = "POST" =>
            /\ (token # None /\ request.token # token)
                  => /\ Handled(request).response.status = 403
                     /\ Handled(request).chunks = chunks
            /\ (token # None /\ request.token = token /\ ValidRequest(request))
                  => Handled(request).response.status = 201
            /\ token = None
                  => \A t \in TokenArgs :
                        Handled([request EXCEPT !.token = t]) = Handled(request)

\* C10: with the showboat permission denied to the actor, the index, the
\* document page and the document listing each answer 403, and the receive
\* endpoint still answers a valid command with 201.
C10_ReadGate ==
    /\ \A request \in IndexRequests, result \in IndexResults(chunks) :
          ~request.permitted => showboat_index(request, result).status = 403
    /\ \A request \in PageRequests :
          ~request.permitted => showboat_document(request).status = 403
    /\ \A request \in ListingRequests :
          ~request.permitted => showboat_document_json(request, chunks).status = 403
    /\ \A request \in ReceiveRequests :
          ValidRequest(request) => Handled(request).response.status = 201

\* C11: a request to the receive endpoint whose method is not POST is answered
\* 405 and writes no chunk, whatever its token and body.
C11_NonPost405 ==
    \A request \in ReceiveRequests :
        request.method # "POST"
            => /\ Handled(request).response.status = 405
               /\ Handled(request).chunks = chunks
               /\ Handled(request).seq = seq

\* C11 witness: with a token configured and chunks stored, a request was just
\* turned down for its method.
C11_Witness ==
    /\ resp = Response(405, [error |-> "Method not allowed"])
    /\ token # None
    /\ chunks # {}

\* C12: in every listing the chunks of the accepted requests appear in the
\* order of their ids, each with its command; a pop chunk carries no
\* rendered_markdown field and every other chunk carries one.
C12_PopListed ==
    \A uuid \in Docs :
        LET listing == Listing(uuid, NoFields)
            log == AcceptedFor(uuid)
        IN  /\ Len(listing) = Len(log)
            /\ \A i \in 1..Len(listing) :
                  /\ "command" \in DOMAIN listing[i]
                  /\ listing[i].command = log[i].command
                  /\ ("rendered_markdown" \in DOMAIN listing[i])
                        <=> (listing[i].command # "pop")

\* The raw fields that belong to a command.
RawFieldNames == {"title", "markdown", "language", "input", "output", "filename", "alt"}
FieldsOf(command) ==
    CASE command = "init" -> {"title"}
      [] command = "note" -> {"markdown"}
      [] command = "exec" -> {"language", "input", "output"}
      [] command = "image" -> {"filename", "alt"}
      [] OTHER -> {}

\* The row holds the command tag and the fields of the multipart body that
\* belong to the command as they were sent, and NULL in every other field.
StoresRaw(c, command) ==
    /\ "command" \in DOMAIN c
    /\ c.command = command
    /\ \A f \in RawFieldNames :
          Get(c, f, None) = IF f \in FieldsOf(command) THEN Get(FullBody.form, f, None)
                            ELSE None
    /\ c.image = IF command = "image" THEN FullBody.upload["image"] ELSE None

\* C13: each accepted request is stored as one chunk holding its command tag
\* and its raw command-specific fields exactly as received, the fields of the
\* other commands null.
C13_RawFieldsStored ==
    [][Accepts => \E c \in chunks' \ chunks : StoresRaw(c, JustAccepted.command)]_vars

\* C14: the document page never renders the same chunk id twice, whatever the
\* interleaving of appends, interval ticks, fetch completions and fetch
\* failures, also when a tick fires while an earlier fetch is in flight.
C14_NeverRenderedTwice ==
    \A i, j \in 1..Len(rendered) : i # j => rendered[i] # rendered[j]

\* The page shows the chunk with this id.
Displayed(id) == \E i \in 1..Len(rendered) : rendered[i] = id

\* C15: a failed poll fetch leaves the page's cursor and displayed chunks as
\* they were and the loop goes on; with fetches succeeding infinitely often,
\* every chunk appended to the document is eventually displayed, and the
\* chunks are displayed in ascending id order.
C15_FailedFetchTolerated ==
    /\ [][FetchFail => (lastId' = lastId /\ rendered' = rendered)]_vars
    /\ [](\A i, j \in 1..Len(rendered) : i < j => rendered[i] < rendered[j])
    /\ \A id \in 1..MaxAccepted :
          (\E c \in ChunksOf(chunks, ViewDoc) : c.id = id) ~> Displayed(id)

\* The list of documents on the index page built from one result of the query.
IndexPage(result) == showboat_index(ReadRequest(None, NoFields, TRUE), result).body.documents

\* C16: the index shows exactly one row per document id that has chunks, with
\* the document's chunk count and its earliest and latest created_at, the rows
\* ordered by latest created_at descending.
C16_IndexSummaries ==
    \A result \in IndexResults(chunks) :
        LET documents == IndexPage(result)
            ids == {c.showboat_id : c \in chunks}
        IN  IF chunks = {} THEN documents = <<"No documents yet.">>
            ELSE /\ Len(documents) = Cardinality(ids)
                 /\ \A uuid \in ids : \E i \in 1..Len(documents) : documents[i].showboat_id = uuid
                 /\ \A i \in 1..Len(documents) :
                       LET mine == {c \in chunks : c.showboat_id = documents[i].showboat_id}
                       IN  /\ documents[i].chunk_count = Cardinality(mine)
                           /\ \E c \in mine : c.created_at = documents[i].first_chunk
                           /\ \E c \in mine : c.created_at = documents[i].last_chunk
                           /\ \A c \in mine : /\ documents[i].first_chunk <= c.created_at
                                                /\ c.created_at <= documents[i].last_chunk
                 /\ \A i, j \in 1..Len(documents) :
                       i < j => documents[i].last_chunk >= documents[j].last_chunk

\* C16 witness: the index page was just served with two documents, the one
\* written to last first, it with two chunks of different times.
C16_Witness ==
    /\ "documents" \in DOMAIN resp.body
    /\ Len(resp.body.documents) = 2
    /\ resp.body.documents[1].last_chunk > resp.body.documents[2].last_chunk
    /\ resp.body.documents[1].chunk_count = 2
    /\ resp.body.documents[1].first_chunk < resp.body.documents[1].last_chunk

\* C17: the index leaves pop chunks out, so a pop accepted for a document
\* changes no summary row: not the count, not the first or last time.
C17_IndexExcludesPop ==
    [][(Accepts /\ JustAccepted.command = "pop")
          => IndexGroups(chunks') = IndexGroups(chunks)]_vars

\* C18: chunk ids are unique, and the id given to a newly written chunk is
\* above every id given before, in any document and also after a pop: the ids
\* of the accepted requests grow in the order the chunks were written, and
\* every stored chunk has the id of one of them.
C18_IdsIncrease ==
    /\ \A c, d \in chunks : c.id = d.id => c = d
    /\ \A i, j \in 1..Len(accepted) :
          (i < j /\ accepted[i].id # 0 /\ accepted[j].id # 0)
              => accepted[i].id < accepted[j].id
    /\ \A c \in chunks :
          \E i \in 1..Len(accepted) :
              accepted[i].id = c.id /\ accepted[i].showboat_id = c.showboat_id

\* C18 witness: a chunk was written, a pop took it away, and the next chunk
\* written got the id after it.
C18_Witness ==
    /\ Len(accepted) = 3
    /\ accepted[1].id = 1
    /\ accepted[2].command = "pop"
    /\ accepted[3].id = 2
    /\ \A c \in chunks : c.id # 1

\* C19: requests handled at the same time never fail because of each other
\* and lose no write: after k accepted requests the store holds k chunks with
\* k distinct ids.
C19_NoLostWrite ==
    /\ Success(resp) \/ resp = NoResponse
    /\ Cardinality({c.id : c \in chunks}) = Len(accepted)
    /\ Cardinality(chunks) = Len(accepted)

\* C20: of two chunks of one document, the one with the larger id has a
\* created_at that is not earlier, also when handlers overlap.
C20_CreatedAtMonotone ==
    \A c, d \in chunks :
        (c.showboat_id = d.showboat_id /\ c.id < d.id) => c.created_at <= d.created_at

\* C20 witness: a document holds two chunks written at different times while
\* another handler waits on its write.
C20_Witness ==
    /\ queue # <<>>
    /\ \E c, d \in chunks :
          /\ c.showboat_id = d.showboat_id
          /\ c.id < d.id
          /\ c.created_at < d.created_at

\* The highest chunk id on the page (0: the page shows none).
HighestRendered ==
    IF rendered = <<>> THEN 0
    ELSE CHOOSE id \in {rendered[i] : i \in 1..Len(rendered)} :
             \A i \in 1..Len(rendered) : rendered[i] <= id

\* The step starts a poll.
Polls == Len(fetches') = Len(fetches) + 1

\* C21: the page's cursor starts at 0 and never decreases; after every
\* processed response it is the highest chunk id rendered so far; a poll sends
\* no after parameter while the cursor is 0 and the cursor it read otherwise,
\* and is answered only chunks with ids above that cursor.
C21_CursorTracksHighest ==
    /\ [][lastId' >= lastId]_vars
    /\ [](lastId = HighestRendered)
    /\ [][Polls =>
            LET args == fetches'[Len(fetches')].args
            IN  IF lastId = 0 THEN "after" \notin DOMAIN args
                ELSE "after" \in DOMAIN args /\ ParseInt(args["after"]) = lastId]_vars
    /\ [](\A i \in 1..Len(fetches) :
            "after" \in DOMAIN fetches[i].args =>
                \A k \in 1..Len(fetches[i].chunks) :
                    fetches[i].chunks[k].id > ParseInt(fetches[i].args["after"]))

\* C21 witness: a response older than the cursor was processed after a newer
\* one: the page shows chunks 1, 2 and 1 again, the cursor stays at 2.
C21_Witness ==
    /\ rendered = <<1, 2, 1>>
    /\ lastId = 2

\* The text holds n backticks in a row somewhere.
HasRun(text, n) ==
    \E i \in 1..(Len(text) - n + 1) : \A k \in 0..(n - 1) : text[i + k] = BT

\* L: the length of the longest run of backticks in the text.
LongestRun(text) ==
    CHOOSE n \in 0..Len(text) :
        /\ n = 0 \/ HasRun(text, n)
        /\ \A m \in (n + 1)..Len(text) : ~HasRun(text, m)

\* C22: for every text make_fence returns backticks only, exactly
\* max(3, L + 1) of them, L the longest run of backticks in the text (3 for a
\* text without backticks); so the text nowhere holds the fence.
C22_FenceLength ==
    fence # NoFence =>
        /\ \A i \in 1..Len(fence) : fence[i] = BT
        /\ Len(fence) = Max(3, LongestRun(content) + 1)
        /\ LongestRun(content) = 0 => Len(fence) = 3
        /\ ~HasRun(content, Len(fence))

\* C22 witness: a text that ends in a run of three backticks was fenced with
\* four.
C22_Witness ==
    /\ content = <<"a", BT, BT, BT>>
    /\ fence = <<BT, BT, BT, BT>>

\* The token gate turns the request down.
FailsToken(request) == token # None /\ request.token # token

\* C23: the checks of a receive request run in the order method, token,
\* required fields, command name: a request that is not a POST gets 405 also
\* with a bad token; a POST with an absent or wrong token gets 403, never 400,
\* also with uuid or command missing or the command unknown; past the token, a
\* missing field is reported before an unknown command.
C23_CheckOrder ==
    \A request \in ReceiveRequests :
        LET status == Handled(request).response.status
        IN  /\ request.method # "POST" => status = 405
            /\ (request.method = "POST" /\ FailsToken(request)) => status = 403
            /\ (request.method = "POST" /\ ~FailsToken(request) /\ ~UuidGiven(request))
                  => Handled(request).response
                        = Response(400, [error |-> "uuid and command are required"])

\* C23 witness: with a token configured and chunks stored, the last answer is
\* the 403 of a POST with a wrong token, no uuid and an unknown command.
C23_Witness ==
    /\ token # None
    /\ chunks # {}
    /\ \E request \in SentRequests :
          /\ request.method = "POST"
          /\ request.token = "wrong"
          /\ ~UuidGiven(request)
          /\ CommandOf(request) = "badcommand"
          /\ Handled(request).response.status = 403
          /\ resp = Handled(request).response

\* C24: a receive request for one document, whatever its command and whether
\* accepted or turned down, leaves every listing of every other document as
\* it was, and a listing of a document holds no chunk of another document.
\* (A step that leaves the table as it was changes no listing: the listing is
\* computed from the table and the request alone.)
C24_DocumentIsolation ==
    /\ [][chunks' # chunks =>
            \A request \in ListingRequests :
                (~Accepts \/ JustAccepted.showboat_id # request.uuid)
                    => showboat_document_json(request, chunks')
                         = showboat_document_json(request, chunks)]_vars
    /\ [](\A request \in ListingRequests :
            LET response == showboat_document_json(request, chunks)
            IN  response.status = 200 =>
                    \A i \in 1..Len(response.body.chunks) :
                        response.body.chunks[i].showboat_id = request.uuid)

\* C24 witness: doc-2 got a chunk, then a pop for doc-1 was accepted, and the
\* chunk of doc-2 is still there.
C24_Witness ==
    /\ Len(accepted) = 2
    /\ accepted[1].showboat_id = "doc-2" /\ accepted[1].id = 1
    /\ accepted[2].showboat_id = "doc-1" /\ accepted[2].command = "pop"
    /\ \E c \in chunks : c.id = 1 /\ c.showboat_id = "doc-2"

\* C25: when a poll completes successfully and no request has been accepted
\* since it was called, the chunk ids on the page, in page order, are the ids
\* of the server's listing of the document without a cursor.
C25_ViewAgreesWithStore ==
    [][\A i \in 1..Len(fetches) :
          (/\ fetches[i].stage = "answered" /\ fetches[i].ok
           /\ fetches[i].issued = Len(accepted)
           /\ fetches' = Without(fetches, i)
           /\ rendered' = rendered \o Rendered(fetches[i].chunks)
           /\ chunks' = chunks)
              => rendered' = Rendered(Listing(ViewDoc, NoFields))]_vars

====
